---- MODULE Spec2Model ----
(***************************************************************************)
(* Crowd Fund Backend: the HTTP handlers of main.py over the two           *)
(* collections "campaign" and "contribution" of the document store.        *)
(*                                                                         *)
(* Money amounts are integers (whole currency units); float(x) of a        *)
(* number keeps its value, and of None raises.  A percentage is kept in    *)
(* hundredths (2500 is 25.00).                                             *)
(***************************************************************************)
EXTENDS Integers, Sequences, FiniteSets, TLC

(* ------------------------------ bounds -------------------------------- *)

\* Most contribution records the store holds in Spec and SpecSeq.
MaxContrib == 2

\* Most contribution records the store holds in SpecMany.
ManyMax == 201

\* Most collection names the store's listing returns in SpecDiag.
MaxColls == 11

\* Longest exception text the store's listing raises in SpecDiag.
MaxErrLen == 51

(* ------------------------- program constants -------------------------- *)

\* list_contributions(limit: int = 200)
DefaultLimit == 200

\* goal = 100000.0
DefaultGoal == 100000

\* Field(100, gt=0) in the schema, and the two literals of get_summary
DefaultMaxSupporters == 100

\* collections[:10]
CollectionsShown == 10

\* str(e)[:50]
ErrorShown == 50

(* ------------------------------ values -------------------------------- *)

\* An Optional value: None, or Some(v) holding v.
None == <<>>
Some(v) == <<v>>
Value(x) == x[1]

\* The module global db: None, or a database handle.
Handle == Some("database")

\* Concurrent request slots of the server (its worker threads).
Workers == {"w1", "w2"}

\* created_at values: datetime.now() is wall-clock time, so two inserts may
\* carry the same value, and a later insert an earlier one.
Times == {1, 2}

\* A request body of POST /api/campaigns.  has_title is false when title
\* (or description, which is declared the same way) is left out;
\* has_max_supporters is false when the key is left out.
CampaignBody(has_title, goal_amount, has_max_supporters, max_supporters) ==
    [has_title |-> has_title,
     goal_amount |-> goal_amount,
     has_max_supporters |-> has_max_supporters,
     max_supporters |-> max_supporters]

\* The request bodies the clients send: four the schema accepts, three it
\* rejects (no title, goal_amount 0, max_supporters 0).
CampaignPayloads ==
    {CampaignBody(TRUE, 10, FALSE, None),
     CampaignBody(TRUE, 10, TRUE, None),
     CampaignBody(TRUE, 10, TRUE, Some(1)),
     CampaignBody(TRUE, 5, TRUE, Some(1)),
     CampaignBody(FALSE, 10, FALSE, None),
     CampaignBody(TRUE, 0, FALSE, None),
     CampaignBody(TRUE, 10, TRUE, Some(0))}

\* Request bodies of POST /api/contributions: email_ok is whether email has
\* the syntax of an address.
ContributionPayloads ==
    [email_ok : BOOLEAN,
     amount : {-1, 0, 1, 2}]

\* Values of the query parameter limit of GET /api/contributions.
Limits == (-2 .. MaxContrib + 1) \cup {DefaultLimit}

Min(a, b) == IF a <= b THEN a ELSE b
Max(a, b) == IF a >= b THEN a ELSE b

VARIABLES
    db,             \* the store handle, fixed when the process starts
    campaign,       \* collection "campaign": documents in insertion order
    contribution,   \* collection "contribution": documents in insertion order
    pc,             \* per request slot: "idle", or "insert" inside create_campaign
    held,           \* per request slot: the body of the request in flight
    resp,           \* the response of the request that completed last
    issued          \* history: the ids add_contribution has returned to clients

vars == <<db, campaign, contribution, pc, held, resp, issued>>

(* ------------------------------ schemas ------------------------------- *)

\* Campaign: title required, goal_amount gt=0, max_supporters Optional gt=0.
CampaignValid(p) ==
    /\ p.has_title
    /\ p.goal_amount > 0
    /\ \/ ~p.has_max_supporters
       \/ p.max_supporters = None
       \/ Value(p.max_supporters) > 0

\* The validated Campaign model: a field left out takes its default.
CampaignModel(p) ==
    [goal_amount |-> p.goal_amount,
     max_supporters |-> IF p.has_max_supporters
                        THEN p.max_supporters
                        ELSE Some(DefaultMaxSupporters)]

\* Contribution: email an EmailStr, amount gt=0.
ContributionValid(p) ==
    /\ p.email_ok
    /\ p.amount > 0

\* The validated Contribution model.
ContributionModel(p) ==
    [amount |-> p.amount]

(* --------------------------- document store --------------------------- *)

\* The store's fresh identifier for a new document of a collection.
NewId(docs) == Len(docs) + 1

\* create_document: the model's fields, the creation time and a fresh _id,
\* appended to the collection.
create_document(docs, data, now) ==
    Append(docs, data @@ [_id |-> NewId(docs), created_at |-> now])

\* get_documents(collection, {}): every document, in insertion order.
get_documents(docs) == docs

(* ----------------------------- responses ------------------------------ *)

Ok(op, req, body) ==
    [op |-> op, req |-> req, status |-> 200, detail |-> "", body |-> body]

\* FastAPI's answer to a body that fails the schema.
Unprocessable(op, req) ==
    [op |-> op, req |-> req, status |-> 422, detail |-> "validation error",
     body |-> <<>>]

\* raise HTTPException(status_code=400, detail=...)
BadRequest(op, req, detail) ==
    [op |-> op, req |-> req, status |-> 400, detail |-> detail, body |-> <<>>]

\* An exception that leaves the handler: the server answers 500.
ServerError(op, req, detail) ==
    [op |-> op, req |-> req, status |-> 500, detail |-> detail, body |-> <<>>]

(* ------------------------- POST /api/campaigns ------------------------ *)

\* No request in flight in this slot.
NoPayload == CampaignBody(FALSE, 0, FALSE, None)

\* create_campaign_check without the check for an existing campaign.
create_campaign_check_unguarded(w, p) ==
    /\ pc[w] = "idle"
    /\ IF ~CampaignValid(p)
       THEN /\ resp' = Unprocessable("create_campaign", p)
            /\ UNCHANGED <<pc, held>>
       ELSE IF db = None
       THEN /\ resp' = ServerError("create_campaign", p, "Database not available")
            /\ UNCHANGED <<pc, held>>
       ELSE /\ pc' = [pc EXCEPT ![w] = "insert"]
            /\ held' = [held EXCEPT ![w] = p]
            /\ UNCHANGED resp
    /\ UNCHANGED <<db, campaign, contribution, issued>>

\* create_campaign up to its read of the collection: the body is validated
\* against the schema before the handler runs; the handler reads the
\* collection and raises when it holds a document.
create_campaign_check(w, p) ==
    /\ pc[w] = "idle"
    /\ IF ~CampaignValid(p)
       THEN /\ resp' = Unprocessable("create_campaign", p)
            /\ UNCHANGED <<pc, held>>
       ELSE IF db = None
       THEN /\ resp' = ServerError("create_campaign", p, "Database not available")
            /\ UNCHANGED <<pc, held>>
       ELSE IF get_documents(campaign) # <<>>
       THEN /\ resp' = BadRequest("create_campaign", p, "A campaign already exists")
            /\ UNCHANGED <<pc, held>>
       ELSE /\ pc' = [pc EXCEPT ![w] = "insert"]
            /\ held' = [held EXCEPT ![w] = p]
            /\ UNCHANGED resp
    /\ UNCHANGED <<db, campaign, contribution, issued>>

\* create_campaign from its insert on: the document is written and its id
\* returned.
create_campaign_insert(w, now) ==
    /\ pc[w] = "insert"
    /\ campaign' = create_document(campaign, CampaignModel(held[w]), now)
    /\ resp' = Ok("create_campaign", held[w], [id |-> NewId(campaign)])
    /\ pc' = [pc EXCEPT ![w] = "idle"]
    /\ held' = [held EXCEPT ![w] = NoPayload]
    /\ UNCHANGED <<db, contribution, issued>>

(* ----------------------- POST /api/contributions ---------------------- *)

\* add_contribution with both checks of the amount letting 0 through (ge=0
\* in the schema, amount < 0 in the handler).
add_contribution_zero_allowed(w, p, now) ==
    /\ pc[w] = "idle"
    /\ IF ~(p.email_ok /\ p.amount >= 0)
       THEN /\ resp' = Unprocessable("add_contribution", p)
            /\ UNCHANGED <<contribution, issued>>
       ELSE IF ContributionModel(p).amount < 0
       THEN /\ resp' = BadRequest("add_contribution", p, "Amount must be positive")
            /\ UNCHANGED <<contribution, issued>>
       ELSE IF db = None
       THEN /\ resp' = ServerError("add_contribution", p, "Database not available")
            /\ UNCHANGED <<contribution, issued>>
       ELSE /\ contribution' = create_document(contribution, ContributionModel(p), now)
            /\ resp' = Ok("add_contribution", p, [id |-> NewId(contribution)])
            /\ issued' = issued \cup {NewId(contribution)}
    /\ UNCHANGED <<db, campaign, pc, held>>

\* add_contribution: the body is validated against the schema, the handler
\* checks the amount again, then the document is written.
add_contribution(w, p, now) ==
    /\ pc[w] = "idle"
    /\ IF ~ContributionValid(p)
       THEN /\ resp' = Unprocessable("add_contribution", p)
            /\ UNCHANGED <<contribution, issued>>
       ELSE IF ContributionModel(p).amount <= 0
       THEN /\ resp' = BadRequest("add_contribution", p, "Amount must be positive")
            /\ UNCHANGED <<contribution, issued>>
       ELSE IF db = None
       THEN /\ resp' = ServerError("add_contribution", p, "Database not available")
            /\ UNCHANGED <<contribution, issued>>
       ELSE /\ contribution' = create_document(contribution, ContributionModel(p), now)
            /\ resp' = Ok("add_contribution", p, [id |-> NewId(contribution)])
            /\ issued' = issued \cup {NewId(contribution)}
    /\ UNCHANGED <<db, campaign, pc, held>>

(* ----------------------- GET /api/contributions ----------------------- *)

\* The order of the sort below on documents paired with their places in
\* the list: the newer first, and of two equally old the one that came
\* first in the list (the sort is stable).
NewerFirst(a, b) ==
    \/ a.doc.created_at > b.doc.created_at
    \/ a.doc.created_at = b.doc.created_at /\ a.pos < b.pos

\* The sort left out: the documents stay in the order the store returned.
SortSkipped(items) == items

\* items.sort(key=lambda x: x.get("created_at"), reverse=True).  NewerFirst
\* orders any two places, so the result does not depend on the order in
\* which the pairs are handed to SortSeq; they are handed over back to front.
SortNewestFirst(items) ==
    LET n == Len(items)
        placed == SortSeq([i \in 1 .. n |->
                             [doc |-> items[n + 1 - i], pos |-> n + 1 - i]],
                          NewerFirst)
    IN [i \in 1 .. n |-> placed[i].doc]

\* items[:limit - 1]: a slice one item short.
SliceOneShort(items, limit) ==
    SubSeq(items, 1, Max(0, Min(limit - 1, Len(items))))

\* items[:limit]: the first limit items, and for a negative limit all but
\* the last -limit.
Slice(items, limit) ==
    IF limit >= 0
    THEN SubSeq(items, 1, Min(limit, Len(items)))
    ELSE SubSeq(items, 1, Max(0, Len(items) + limit))

\* ContributionOut(id=str(it.get("_id")), amount=float(it.get("amount")), ...)
ContributionOut(it) ==
    [id |-> it._id, amount |-> it.amount, created_at |-> it.created_at]

\* list_contributions
list_contributions(w, limit) ==
    /\ pc[w] = "idle"
    /\ IF db = None
       THEN resp' = ServerError("list_contributions", [limit |-> limit],
                                "Database not available")
       ELSE LET items == Slice(SortNewestFirst(get_documents(contribution)), limit)
            IN resp' = Ok("list_contributions", [limit |-> limit],
                          [i \in 1 .. Len(items) |-> ContributionOut(items[i])])
    /\ UNCHANGED <<db, campaign, contribution, pc, held, issued>>

(* -------------------------- GET /api/summary -------------------------- *)

\* sum(float(x.get("amount", 0)) for x in contributions)
RECURSIVE SumAmounts(_)
SumAmounts(docs) ==
    IF docs = <<>>
    THEN 0
    ELSE SumAmounts(SubSeq(docs, 1, Len(docs) - 1)) + docs[Len(docs)].amount

\* round(n / d * 100, 2) in hundredths, halves to the even neighbour.
Percent(n, d) ==
    LET q == (n * 10000) \div d
        r == (n * 10000) % d
    IN IF 2 * r > d \/ (2 * r = d /\ q % 2 = 1) THEN q + 1 ELSE q

\* The body of get_summary over what it read.  max_supporters - count
\* raises TypeError when max_supporters is None.
SummaryOf(campaigns, contributions) ==
    LET goal == IF campaigns # <<>> THEN campaigns[1].goal_amount ELSE DefaultGoal
        max_supporters == IF campaigns # <<>>
                          THEN campaigns[1].max_supporters
                          ELSE Some(DefaultMaxSupporters)
        total == SumAmounts(contributions)
        count == Len(contributions)
        percent == IF goal > 0 THEN Percent(total, goal) ELSE 0
    IN IF max_supporters = None
       THEN ServerError("get_summary", <<>>, "TypeError")
       ELSE Ok("get_summary", <<>>,
               [goal |-> goal,
                raised |-> total,
                backers |-> count,
                percent |-> percent,
                remaining_supporters |-> Max(0, Value(max_supporters) - count)])

\* get_summary
get_summary(w) ==
    /\ pc[w] = "idle"
    /\ IF db = None
       THEN resp' = ServerError("get_summary", <<>>, "Database not available")
       ELSE resp' = SummaryOf(get_documents(campaign), get_documents(contribution))
    /\ UNCHANGED <<db, campaign, contribution, pc, held, issued>>

(* ------------------------------ GET /test ----------------------------- *)

\* What db.list_collection_names() does: it returns n names, or raises an
\* exception whose text has n characters.
ListingOutcomes ==
    {[raises |-> FALSE, n |-> n] : n \in 0 .. MaxColls}
    \cup {[raises |-> TRUE, n |-> n] : n \in 0 .. MaxErrLen}

\* What reading db.name does: "has" (the attribute exists), "lacks"
\* (hasattr is false), or an exception whose text has n characters.
NameOutcomes ==
    {[kind |-> k, n |-> 0] : k \in {"has", "lacks"}}
    \cup {[kind |-> "raises", n |-> n] : n \in {0, MaxErrLen}}

\* Inputs of one GET /test: whether DATABASE_URL is set, and the two above.
Probes == [env_set : BOOLEAN, name : NameOutcomes, listing : ListingOutcomes]

\* The names a listing of n collections returns.
CollectionNames(n) == [i \in 1 .. n |-> i]

\* collections without the slice.
ShownCollectionsAll(names) == names

\* collections[:10]
ShownCollections(names) == SubSeq(names, 1, Min(CollectionsShown, Len(names)))

\* A text of the response: a fixed prefix and the first characters of an
\* exception's text, kept as their number.
Text(prefix, error_chars) == [prefix |-> prefix, error_chars |-> error_chars]

\* test_database: the response dictionary when the handler returns.
TestDatabaseBody(probe) ==
    LET initial == [backend |-> "Running",
                    database |-> Text("Not Available", 0),
                    database_url |-> "None",
                    database_name |-> "None",
                    connection_status |-> "Not Connected",
                    collections |-> <<>>]
        url == IF probe.env_set THEN "Set" ELSE "Not Set"
    IN IF db = None
       THEN [initial EXCEPT !.database = Text("Available but not initialized", 0)]
       ELSE IF probe.name.kind = "raises"
       THEN [initial EXCEPT
               !.database = Text("Error: ", Min(probe.name.n, ErrorShown)),
               !.database_url = url]
       ELSE LET connected ==
                   [initial EXCEPT
                      !.database = Text("Available", 0),
                      !.database_url = url,
                      !.database_name = IF probe.name.kind = "has"
                                        THEN "name" ELSE "Connected",
                      !.connection_status = "Connected"]
            IN IF probe.listing.raises
               THEN [connected EXCEPT
                       !.database = Text("Connected but Error: ",
                                         Min(probe.listing.n, ErrorShown))]
               ELSE [connected EXCEPT
                       !.collections = ShownCollections(
                                          CollectionNames(probe.listing.n)),
                       !.database = Text("Connected & Working", 0)]

\* test_database
test_database(w, probe) ==
    /\ pc[w] = "idle"
    /\ resp' = Ok("test_database", probe, TestDatabaseBody(probe))
    /\ UNCHANGED <<db, campaign, contribution, pc, held, issued>>

(* --------------------------- specifications --------------------------- *)

Init ==
    /\ db \in {None, Handle}
    /\ campaign = <<>>
    /\ contribution = <<>>
    /\ pc = [w \in Workers |-> "idle"]
    /\ held = [w \in Workers |-> NoPayload]
    /\ resp = [op |-> "none", req |-> <<>>, status |-> 0, detail |-> "", body |-> <<>>]
    /\ issued = {}

\* Requests of several clients, served concurrently: create_campaign's
\* read and insert are two steps, and other requests run between them.
Next ==
    \E w \in Workers :
        \/ \E p \in CampaignPayloads : create_campaign_check(w, p)
        \/ \E now \in Times : create_campaign_insert(w, now)
        \/ \E p \in ContributionPayloads, now \in Times :
              /\ Len(contribution) < MaxContrib
              /\ add_contribution(w, p, now)
        \/ \E limit \in Limits : list_contributions(w, limit)
        \/ get_summary(w)

Spec == Init /\ [][Next]_vars

\* No request of another slot is in flight.
NoOverlap(w) == \A v \in Workers \ {w} : pc[v] = "idle"

\* The same requests, run one after another.
NextSeq ==
    \E w \in Workers :
        \/ \E p \in CampaignPayloads :
              NoOverlap(w) /\ create_campaign_check(w, p)
        \/ \E now \in Times :
              NoOverlap(w) /\ create_campaign_insert(w, now)
        \/ \E p \in ContributionPayloads, now \in Times :
              /\ NoOverlap(w)
              /\ Len(contribution) < MaxContrib
              /\ add_contribution(w, p, now)
        \/ \E limit \in Limits :
              NoOverlap(w) /\ list_contributions(w, limit)
        \/ NoOverlap(w) /\ get_summary(w)

SpecSeq == Init /\ [][NextSeq]_vars

\* The request bodies of SpecMany: one the schema accepts, two it rejects.
ManyPayloads ==
    {[email_ok |-> TRUE, amount |-> 1],
     [email_ok |-> FALSE, amount |-> 1],
     [email_ok |-> TRUE, amount |-> 0]}

\* Many contributions, the clock advancing from one insert to the next, and
\* listings with the default limit.
NextMany ==
    \E w \in Workers :
        \/ \E p \in ManyPayloads :
              /\ Len(contribution) < ManyMax
              /\ add_contribution(w, p, Len(contribution) + 1)
        \/ list_contributions(w, DefaultLimit)

SpecMany == Init /\ [][NextMany]_vars

\* Diagnostics requests.
NextDiag ==
    \E w \in Workers, probe \in Probes : test_database(w, probe)

SpecDiag == Init /\ [][NextDiag]_vars

(* ------------------------------- claims ------------------------------- *)

\* The ids of the records of a response body or of a collection.
OutIds(items) == {items[i].id : i \in 1 .. Len(items)}
DocIds(docs) == {docs[i]._id : i \in 1 .. Len(docs)}

\* A step in which a create_campaign request is answered: by the check (no
\* slot moves) or by the insert (a slot returns to idle).
CampaignAnswered ==
    /\ resp'.op = "create_campaign"
    /\ \/ pc' = pc
       \/ \E w \in Workers : pc[w] = "insert" /\ pc'[w] = "idle"

\* A step in which an add_contribution request is answered.
ContributionAnswered ==
    /\ resp'.op = "add_contribution"
    /\ pc' = pc

\* C1: in every reachable state the campaign collection holds at most one
\* record, whatever the interleaving of the create_campaign requests' reads
\* and inserts.
C1_AtMostOneCampaign == Len(campaign) <= 1

\* C2, as claimed: with requests run one after another, a create_campaign
\* request answered on an empty collection either inserted its one record
\* and succeeded or had a payload the schema rejects, and every request
\* answered on a non-empty collection, whatever its payload, fails with
\* 400 "A campaign already exists" and leaves the store unchanged.
C2_LaterRequestsAll400 ==
    [][(CampaignAnswered /\ db = Handle) =>
         IF campaign = <<>>
         THEN \/ /\ resp'.status = 200
                 /\ Len(campaign') = 1
                 /\ campaign'[1]._id = resp'.body.id
              \/ /\ resp'.status = 422
                 /\ ~CampaignValid(resp'.req)
                 /\ campaign' = campaign
         ELSE /\ resp'.status = 400
              /\ resp'.detail = "A campaign already exists"
              /\ campaign' = campaign
              /\ contribution' = contribution]_vars

\* C2, amended: as above, but a request answered on a non-empty collection
\* fails with 400 "A campaign already exists" when its payload passes the
\* schema and with 422 when it does not; the store is unchanged by both.
C2_LaterRequestsRejected ==
    [][(CampaignAnswered /\ db = Handle) =>
         IF campaign = <<>>
         THEN \/ /\ resp'.status = 200
                 /\ Len(campaign') = 1
                 /\ campaign'[1]._id = resp'.body.id
              \/ /\ resp'.status = 422
                 /\ ~CampaignValid(resp'.req)
                 /\ campaign' = campaign
         ELSE /\ IF CampaignValid(resp'.req)
                 THEN /\ resp'.status = 400
                      /\ resp'.detail = "A campaign already exists"
                 ELSE resp'.status = 422
              /\ campaign' = campaign
              /\ contribution' = contribution]_vars

\* C2, witness: a second request with a valid payload was refused while the
\* first request's record is stored.
C2_Witness ==
    /\ Len(campaign) = 1
    /\ resp.op = "create_campaign"
    /\ resp.status = 400
    /\ CampaignValid(resp.req)

\* C3: a create-contribution request whose amount is <= 0 is rejected and
\* leaves the contribution collection unchanged, and every stored
\* contribution has amount > 0.
C3_NonPositiveNeverStored ==
    /\ [](\A i \in 1 .. Len(contribution) : contribution[i].amount > 0)
    /\ [][(ContributionAnswered /\ resp'.req.amount <= 0) =>
            /\ resp'.status \in {400, 422}
            /\ contribution' = contribution]_vars

\* C3, witness: a request with amount <= 0 was rejected while a
\* contribution is stored.
C3_Witness ==
    /\ resp.op = "add_contribution"
    /\ resp.req.amount <= 0
    /\ resp.status \in {400, 422}
    /\ Len(contribution) >= 1

\* C4: a create-contribution request that is valid but for its amount
\* <= 0 is answered with status 400 and "Amount must be positive".
C4_NonPositiveIs400 ==
    (/\ resp.op = "add_contribution"
     /\ db = Handle
     /\ resp.req.email_ok
     /\ resp.req.amount <= 0)
        => (resp.status = 400 /\ resp.detail = "Amount must be positive")

\* What a listing answers with, but for the number of records: records of
\* the collection, each once and with its stored fields, in non-increasing
\* created_at order, none older than a record left out.
NewestOfStore(out) ==
    /\ \A i \in 1 .. Len(out) :
          \E k \in 1 .. Len(contribution) : out[i] = ContributionOut(contribution[k])
    /\ Cardinality(OutIds(out)) = Len(out)
    /\ \A i \in 1 .. Len(out) - 1 : out[i].created_at >= out[i + 1].created_at
    /\ \A i \in 1 .. Len(out) :
          \A k \in 1 .. Len(contribution) :
             contribution[k]._id \notin OutIds(out)
                => out[i].created_at >= contribution[k].created_at

\* C5, as claimed: for every limit, a listing of N stored contributions
\* holds exactly min(limit, N) records, in non-increasing created_at
\* order, none older than a record left out.
C5_ListHoldsMinLimitN ==
    (resp.op = "list_contributions" /\ resp.status = 200)
        => /\ Len(resp.body) = Min(resp.req.limit, Len(contribution))
           /\ NewestOfStore(resp.body)

\* C5, amended: the same for every limit >= 0; for a limit < 0 the listing
\* holds max(0, N + limit) records (all but the -limit oldest), in the same
\* order.
C5_ListHoldsSlice ==
    (resp.op = "list_contributions" /\ resp.status = 200)
        => /\ Len(resp.body) =
                 IF resp.req.limit >= 0
                 THEN Min(resp.req.limit, Len(contribution))
                 ELSE Max(0, Len(contribution) + resp.req.limit)
           /\ NewestOfStore(resp.body)

\* C5, witness: a listing cut to fewer records than are stored, the newest
\* of which was inserted last.
C5_Witness ==
    /\ resp.op = "list_contributions"
    /\ resp.status = 200
    /\ resp.req.limit = 1
    /\ Len(contribution) = 2
    /\ contribution[1].created_at < contribution[2].created_at
    /\ Len(resp.body) = 1

\* What every request with amount > 0 and a valid email is answered with:
\* success, and the id of a stored record.
ValidContributionSucceeds ==
    (/\ resp.op = "add_contribution"
     /\ db = Handle
     /\ resp.req.email_ok
     /\ resp.req.amount > 0)
        => /\ resp.status = 200
           /\ resp.body.id \in issued
           /\ issued \subseteq DocIds(contribution)

\* C6, as claimed: every create-contribution request with amount > 0 and a
\* valid email succeeds and returns an id, and every later listing with the
\* default limit holds a record carrying that id.
C6_IssuedIdAlwaysListed ==
    /\ ValidContributionSucceeds
    /\ (/\ resp.op = "list_contributions"
        /\ resp.status = 200
        /\ resp.req.limit = DefaultLimit)
           => issued \subseteq OutIds(resp.body)

\* C6, amended: such a request succeeds and returns the id of a record that
\* stays stored; a later listing with the default limit holds a record
\* carrying that id while at most 200 contributions are stored, and holds
\* 200 records, not all of the ids, once more are stored.
C6_IssuedIdListedUpToLimit ==
    /\ ValidContributionSucceeds
    /\ (/\ resp.op = "list_contributions"
        /\ resp.status = 200
        /\ resp.req.limit = DefaultLimit)
           => /\ issued \subseteq DocIds(contribution)
              /\ OutIds(resp.body) \subseteq issued
              /\ IF Len(contribution) <= DefaultLimit
                 THEN issued \subseteq OutIds(resp.body)
                 ELSE Len(resp.body) = DefaultLimit

\* C6, witness: a listing with the default limit of exactly 200 stored
\* contributions, holding every id returned.
C6_Witness ==
    /\ resp.op = "list_contributions"
    /\ resp.status = 200
    /\ resp.req.limit = DefaultLimit
    /\ Len(contribution) = DefaultLimit
    /\ Cardinality(issued) = DefaultLimit
    /\ issued \subseteq OutIds(resp.body)

\* The sum of the amounts of the documents at the places S of a collection.
RECURSIVE AmountsAt(_, _)
AmountsAt(docs, S) ==
    IF S = {}
    THEN 0
    ELSE LET i == CHOOSE i \in S : TRUE
         IN docs[i].amount + AmountsAt(docs, S \ {i})

\* C7: after any sequence of accepted requests, Summary reports raised =
\* the sum of the amounts of the stored contributions, backers = their
\* number, and goal = the stored campaign's goal_amount, or 100000 when no
\* campaign is stored.
C7_SummaryTotals ==
    (resp.op = "get_summary" /\ db = Handle)
        => /\ resp.status = 200
           /\ resp.body.raised = AmountsAt(contribution, 1 .. Len(contribution))
           /\ resp.body.backers = Len(contribution)
           /\ resp.body.goal = IF campaign = <<>>
                               THEN DefaultGoal
                               ELSE campaign[1].goal_amount

\* C8: Summary's remaining_supporters equals max(0, max_supporters -
\* backers) and is never negative, max_supporters being the stored
\* campaign's value, or 100 when no campaign is stored.
C8_RemainingSupporters ==
    (resp.op = "get_summary" /\ db = Handle)
        => /\ resp.status = 200
           /\ resp.body.remaining_supporters >= 0
           /\ LET max_supporters == IF campaign = <<>>
                                    THEN DefaultMaxSupporters
                                    ELSE Value(campaign[1].max_supporters)
              IN resp.body.remaining_supporters =
                    Max(0, max_supporters - Len(contribution))

\* C10: with the store reachable, Summary returns a result without raising
\* in every state reached through accepted requests, a campaign created
\* with max_supporters null included.
C10_SummaryNeverRaises ==
    (resp.op = "get_summary" /\ db = Handle) => resp.status # 500

\* C9: Diagnostics always answers 200 with its report: "Available but not
\* initialized" when the store handle is None, the listing's failure as
\* text of at most 50 characters of the exception when the listing raises,
\* and never more than 10 collections.
C9_DiagnosticsAlwaysAnswers ==
    resp.op = "test_database"
        => /\ resp.status = 200
           /\ Len(resp.body.collections) <= CollectionsShown
           /\ Len(resp.body.collections) <= resp.req.listing.n
           /\ db = None
                 => resp.body.database = Text("Available but not initialized", 0)
           /\ (db = Handle /\ resp.req.name.kind # "raises" /\ resp.req.listing.raises)
                 => /\ resp.body.database.prefix = "Connected but Error: "
                    /\ resp.body.database.error_chars <= ErrorShown
                    /\ resp.body.database.error_chars <= resp.req.listing.n
                    /\ resp.body.collections = <<>>
           /\ (db = Handle /\ resp.req.name.kind = "raises")
                 => /\ resp.body.database.prefix = "Error: "
                    /\ resp.body.database.error_chars <= ErrorShown

\* C9, witness: a listing that raised an exception of more than 50
\* characters was answered.
C9_Witness ==
    /\ resp.op = "test_database"
    /\ db = Handle
    /\ resp.req.name.kind = "has"
    /\ resp.req.listing.raises
    /\ resp.req.listing.n > ErrorShown
    /\ resp.status = 200

====
